---- MODULE Spec2Model ----
(***************************************************************************)
(* A model of eightstars/geometry.py: Point, Straight and Star.            *)
(*                                                                         *)
(* Numbers.  Python floats are modelled as exact rationals counted in      *)
(* units of 10^-5 (the precision of the default decimals=5): the record    *)
(* [n |-> 7, d |-> 2] is 3.5 units, that is 0.000035.  A value that has    *)
(* been through round(v, decimals) with decimals <= 5 is a whole number of *)
(* units and is stored as an integer.  round is to the nearest, and an     *)
(* exact tie of the rational goes to the even neighbour, which is what     *)
(* Python does with a float that holds the tie exactly (0.5, 0.25); where  *)
(* the float nearest to a decimal tie lies off the tie, Python follows the *)
(* float.  The arguments of sin and cos are kept symbolic (corners, i,     *)
(* first_corner_slope) and their values are read from tables computed      *)
(* with math.sin and math.cos.  TLC's integers are 32 bits wide and TLC    *)
(* stops on an overflow, so the inputs are small: a star a few hundred     *)
(* units across, straights through points a few grid steps apart.          *)
(*                                                                         *)
(* Calls.  A run exercises one class (scene).  The constructor of Star is  *)
(* taken one statement or loop iteration at a time, so that what has been  *)
(* computed when an exception leaves it can be read from the state.        *)
(***************************************************************************)
EXTENDS Integers, Sequences, FiniteSets, TLC

VARIABLES
    scene,      \* which class the run exercises: "point", "straight", "star"
    pc,         \* position of the run inside the scene
    args,       \* the arguments the objects of the scene were constructed with
    point,      \* Point scene: the Point p in hand
    result,     \* outcome of the last call: [exc, value]
    straights,  \* Straight scene: <<s1, s2>>; Star scene: local `straights`
    star        \* Star scene: locals and fields of Star.__init__

vars == <<scene, pc, args, point, result, straights, star>>

----------------------------------------------------------------------------
(* Bounds of the model.                                                    *)

\* Coordinates of the Straight scene are 0..MaxCoord grid steps.
MaxCoord == 3
\* Point scene: raw coordinates and distances are 0..MaxRaw quarter steps.
MaxRaw == 5
\* Star scene: corners ranges over 3..MaxCorners.
MaxCorners == 6
\* Star scene: style ranges over -MaxStyle..MaxStyle.
MaxStyle == 7

----------------------------------------------------------------------------
(* Floats.                                                                 *)

\* decimals: int = 5, the default of Point, Straight and Star.
DefaultDecimals == 5

\* Units in 1.0: 10^DefaultDecimals.
Unit == 10^5

Abs(v) == IF v < 0 THEN -v ELSE v

RECURSIVE GCD(_, _)
GCD(m, k) == IF k = 0 THEN Abs(m) ELSE GCD(k, m % Abs(k))

\* The rational n/d units in lowest terms with a positive denominator.
Norm(n, d) ==
    LET g == GCD(n, d)
        s == IF d < 0 THEN -1 ELSE 1
    IN  [n |-> s * (n \div g), d |-> s * (d \div g)]

\* An integer number of units as a float.
F(v) == [n |-> v, d |-> 1]

FAdd(p, q) ==
    LET g == GCD(p.d, q.d)
    IN  Norm(p.n * (q.d \div g) + q.n * (p.d \div g), (p.d \div g) * q.d)

FNeg(p) == [n |-> -p.n, d |-> p.d]

FSub(p, q) == FAdd(p, FNeg(q))

\* p * q: (p units) * (q units) = p*q/Unit units.  Common factors are
\* cancelled before multiplying.
FMul(p, q) ==
    LET g1 == GCD(p.n, q.d)
        g2 == GCD(q.n, p.d)
        pn == p.n \div g1
        qd == q.d \div g1
        qn == q.n \div g2
        pd == p.d \div g2
        g3 == GCD(pn, Unit)
        g4 == GCD(qn, Unit \div g3)
    IN  Norm((pn \div g3) * (qn \div g4), pd * qd * ((Unit \div g3) \div g4))

\* p / q for q # 0: (p units) / (q units) = Unit*p/q units.
FDiv(p, q) ==
    LET g1 == GCD(p.n, q.n)
        g2 == GCD(p.d, q.d)
        pn == p.n \div g1
        qn == q.n \div g1
        pd == p.d \div g2
        qd == q.d \div g2
        g3 == GCD(Unit, qn)
        g4 == GCD(Unit \div g3, pd)
    IN  Norm(((Unit \div g3) \div g4) * pn * qd, (pd \div g4) * (qn \div g3))

\* n/d (d # 0) rounded to the nearest integer, a tie to the even one.
RoundDiv(n, d) ==
    LET nn == IF d < 0 THEN -n ELSE n
        dd == Abs(d)
        q == nn \div dd
        r == nn % dd
    IN  IF 2 * r < dd THEN q
        ELSE IF 2 * r > dd THEN q + 1
        ELSE IF q % 2 = 0 THEN q ELSE q + 1

\* round(v, decimals) for 0 <= decimals <= 5, in units.
Round(v, decimals) ==
    LET g == 10^(DefaultDecimals - decimals)
    IN  RoundDiv(v.n, v.d * g) * g

\* Whether p <= q, and whether p < q.
FLe(p, q) == FSub(p, q).n <= 0
FLt(p, q) == FSub(p, q).n < 0

----------------------------------------------------------------------------
(* Python values.                                                          *)

\* None; Some(v) is a value that is not None.
None == <<>>
Some(v) == <<v>>

\* How a call ends: it returns a value or raises an exception.
NoExc == "none"
Return(v) == [exc |-> NoExc, value |-> v]
Raise(e) == [exc |-> e, value |-> None]

----------------------------------------------------------------------------
(* class Point                                                             *)

\* Point.__init__(x, y, decimals): x and y are floats.
Point(x, y, decimals) ==
    [x |-> Round(x, decimals), y |-> Round(y, decimals)]

\* Point.moved(x_distance, y_distance): the new Point takes the default
\* decimals.
moved(self, x_distance, y_distance) ==
    Point(FAdd(F(self.x), x_distance), FAdd(F(self.y), y_distance),
          DefaultDecimals)

----------------------------------------------------------------------------
(* class Straight                                                          *)

\* Straight with the intercept taken at B.x: b = A.y - a * B.x.
StraightInterceptAtB(A, B, decimals) ==
    IF A.x # B.x
    THEN LET a == Round(FDiv(FSub(F(B.y), F(A.y)), FSub(F(B.x), F(A.x))),
                        decimals)
         IN  [a |-> a,
              b |-> Round(FSub(F(A.y), FMul(F(a), F(B.x))), decimals),
              x |-> None]
    ELSE [x |-> Some(A.x)]

\* Straight.__init__(A, B, decimals).  A vertical straight gets the
\* attribute x alone; a and b are never assigned.
Straight(A, B, decimals) ==
    IF A.x # B.x
    THEN LET a == Round(FDiv(FSub(F(B.y), F(A.y)), FSub(F(B.x), F(A.x))),
                        decimals)
         IN  [a |-> a,
              b |-> Round(FSub(F(A.y), FMul(F(a), F(A.x))), decimals),
              x |-> None]
    ELSE [x |-> Some(A.x)]

\* NonVertical with the intercepts swapped: x = (self.b - other.b) / ...
NonVerticalSwapped(self, other) ==
    IF self.a = other.a
    THEN IF self.b = other.b
         THEN Raise("CoincidentStraights")
         ELSE Return(None)
    ELSE LET x == FDiv(FSub(F(self.b), F(other.b)),
                       FSub(F(self.a), F(other.a)))
             y == FAdd(FMul(F(self.a), x), F(self.b))
         IN  Return(Some(Point(x, y, DefaultDecimals)))

\* Straight.intersection(other), neither straight vertical.
NonVertical(self, other) ==
    IF self.a = other.a
    THEN IF self.b = other.b
         THEN Raise("CoincidentStraights")
         ELSE Return(None)
    ELSE LET x == FDiv(FSub(F(other.b), F(self.b)),
                       FSub(F(self.a), F(other.a)))
             y == FAdd(FMul(F(self.a), x), F(self.b))
         IN  Return(Some(Point(x, y, DefaultDecimals)))

\* BothVertical without the test for coincidence.
BothVerticalParallel(self, other) == Return(None)

\* Straight.intersection(other), both straights vertical.
BothVertical(self, other) ==
    IF self.x = other.x
    THEN Raise("CoincidentStraights")
    ELSE Return(None)

\* FirstVertical without the intercept: y = other.a * x.
FirstVerticalNoIntercept(self, other) ==
    LET x == F(self.x[1])
        y == FMul(F(other.a), x)
    IN  Return(Some(Point(x, y, DefaultDecimals)))

\* Straight.intersection(other), only the first straight vertical.
FirstVertical(self, other) ==
    LET x == F(self.x[1])
        y == FAdd(FMul(F(other.a), x), F(other.b))
    IN  Return(Some(Point(x, y, DefaultDecimals)))

\* Straight.intersection(other), only the other straight vertical.
OtherVertical(self, other) ==
    LET x == F(other.x[1])
        y == FAdd(FMul(F(self.a), x), F(self.b))
    IN  Return(Some(Point(x, y, DefaultDecimals)))

\* Straight.intersection(other).
intersection(self, other) ==
    IF self.x = None /\ other.x = None
    THEN NonVertical(self, other)
    ELSE IF self.x # None /\ other.x # None
    THEN BothVertical(self, other)
    ELSE IF self.x # None
    THEN FirstVertical(self, other)
    ELSE OtherVertical(self, other)

\* A piece of a rendered string: literal text, or a number as formatted.
Lit(s) == [isnum |-> FALSE, s |-> s, v |-> 0]
Fmt(v) == [isnum |-> TRUE, s |-> "", v |-> v]

\* Straight.__str__().
StraightStr(self) ==
    IF self.x # None
    THEN <<Lit("x = "), Fmt(self.x[1])>>
    ELSE LET s0 == IF self.a # 0 THEN <<Fmt(self.a), Lit("x")>> ELSE <<>>
             s == IF s0 = <<>>
                  THEN <<Fmt(self.b)>>
                  ELSE IF self.b < 0
                       THEN s0 \o <<Lit(" - "), Fmt(Abs(self.b))>>
                       ELSE IF self.b > 0
                            THEN s0 \o <<Lit(" + "), Fmt(self.b)>>
                            ELSE s0
         IN  <<Lit("y = ")>> \o s

----------------------------------------------------------------------------
(* math.pi, math.sin, math.cos                                             *)

\* 2 * pi = 6.2831853 as a float.
TwoPi == [n |-> 62831853, d |-> 100]

\* The tables hold sin and cos scaled by SinScale, by first_corner_slope
\* (in units, as rounded by Star), corners and corner index i (from 0).
SinScale == 10^7

SinTable ==
    0 :> (
       5 :> <<0, 9510565, 5877853, -5877853, -9510565>> @@
       6 :> <<0, 8660254, 8660254, 0, -8660254, -8660254>> @@
       7 :> <<0, 7818315, 9749279, 4338837, -4338837, -9749279, -7818315>> @@
       8 :> <<0, 7071068, 10000000, 7071068, 0, -7071068, -10000000, -7071068>>) @@
    157080 :> (
       5 :> <<10000000, 3090135, -8090192, -8090148, 3090205>> @@
       6 :> <<10000000, 4999968, -5000032, -10000000, -4999968, 5000032>> @@
       7 :> <<10000000, 6234869, -2225245, -9009705, -9009673, -2225174, 6234927>> @@
       8 :> <<10000000, 7071042, -37, -7071094, -10000000, -7071042, 37, 7071094>>) @@
    157100 :> (
       5 :> <<10000000, 3088233, -8091367, -8088973, 3092107>> @@
       6 :> <<10000000, 4998236, -5001764, -10000000, -4998236, 5001764>> @@
       7 :> <<10000000, 6233306, -2227195, -9010572, -9008805, -2223224, 6236490>> @@
       8 :> <<10000000, 7069627, -2037, -7072508, -10000000, -7069627, 2037, 7072508>>) @@
    628300 :> (
       5 :> <<-1853, 9509992, 5879352, -5876353, -9511138>> @@
       6 :> <<-1853, 8659327, 8661180, 1853, -8659327, -8661180>> @@
       7 :> <<-1853, 7817159, 9749691, 4340507, -4337168, -9748867, -7819470>> @@
       8 :> <<-1853, 7069757, 10000000, 7072378, 1853, -7069757, -10000000, -7072378>>) @@
    628319 :> (
       5 :> <<47, 9510580, 5877815, -5877890, -9510551>> @@
       6 :> <<47, 8660278, 8660231, -47, -8660278, -8660231>> @@
       7 :> <<47, 7818344, 9749269, 4338795, -4338880, -9749290, -7818286>> @@
       8 :> <<47, 7071101, 10000000, 7071035, -47, -7071101, -10000000, -7071035>>)

CosTable ==
    0 :> (
       5 :> <<10000000, 3090170, -8090170, -8090170, 3090170>> @@
       6 :> <<10000000, 5000000, -5000000, -10000000, -5000000, 5000000>> @@
       7 :> <<10000000, 6234898, -2225209, -9009689, -9009689, -2225209, 6234898>> @@
       8 :> <<10000000, 7071068, 0, -7071068, -10000000, -7071068, 0, 7071068>>) @@
    157080 :> (
       5 :> <<-37, -9510577, -5877823, 5877882, 9510554>> @@
       6 :> <<-37, -8660272, -8660236, 37, 8660272, 8660236>> @@
       7 :> <<-37, -7818338, -9749271, -4338804, 4338870, 9749287, 7818292>> @@
       8 :> <<-37, -7071094, -10000000, -7071042, 37, 7071094, 10000000, 7071042>>) @@
    157100 :> (
       5 :> <<-2037, -9511194, -5876205, 5879500, 9509936>> @@
       6 :> <<-2037, -8661272, -8659235, 2037, 8661272, 8659235>> @@
       7 :> <<-2037, -7819585, -9748826, -4337002, 4340672, 9749732, 7817045>> @@
       8 :> <<-2037, -7072508, -10000000, -7069627, 2037, 7072508, 10000000, 7069627>>) @@
    628300 :> (
       5 :> <<10000000, 3091932, -8089081, -8091259, 3088408>> @@
       6 :> <<10000000, 5001605, -4998395, -10000000, -5001605, 4998395>> @@
       7 :> <<10000000, 6236347, -2223403, -9008885, -9010493, -2227016, 6233449>> @@
       8 :> <<10000000, 7072378, 1853, -7069757, -10000000, -7072378, -1853, 7069757>>) @@
    628319 :> (
       5 :> <<10000000, 3090125, -8090198, -8090142, 3090215>> @@
       6 :> <<10000000, 4999959, -5000041, -10000000, -4999959, 5000041>> @@
       7 :> <<10000000, 6234861, -2225255, -9009709, -9009668, -2225164, 6234935>> @@
       8 :> <<10000000, 7071035, -47, -7071101, -10000000, -7071035, 47, 7071101>>)

\* sin and cos of the angle 2*pi/corners * i + first.
Sin(angle) ==
    Norm(SinTable[angle.first][angle.corners][angle.i + 1], SinScale \div Unit)

Cos(angle) ==
    Norm(CosTable[angle.first][angle.corners][angle.i + 1], SinScale \div Unit)

----------------------------------------------------------------------------
(* class Star                                                              *)

\* The locals and fields of Star.__init__ before the first statement.
NewStar ==
    [center |-> None, outer_diameter |-> None, first_corner_slope |-> None,
     corner_vertices |-> <<>>, inner_vertices |-> <<>>, vertices |-> None]

\* Precondition with the corner count off by one: five corners refused.
PreconditionFiveRefused(corners, first_corner_slope) ==
    /\ corners > 5
    /\ FLe(F(0), first_corner_slope) /\ FLe(first_corner_slope, TwoPi)

\* The asserts of Star.__init__.
Precondition(corners, first_corner_slope) ==
    /\ corners > 4
    /\ FLe(F(0), first_corner_slope) /\ FLe(first_corner_slope, TwoPi)

\* corner_slope of corner i: spacing_angle * i + self.first_corner_slope,
\* with spacing_angle = 2 * pi / corners.
CornerSlope(corners, i, first) ==
    [corners |-> corners, i |-> i, first |-> first]

\* The corner vertex of corner i.
CornerVertex(center, outer_diameter, corner_slope) ==
    LET outer_rarius == FDiv(F(outer_diameter), F(2 * Unit))
    IN  Point(FAdd(F(center.x), FMul(Sin(corner_slope), outer_rarius)),
              FAdd(F(center.y), FMul(Cos(corner_slope), outer_rarius)),
              DefaultDecimals)

\* Index of the corner where straight i ends: (i + style) % corners.
ChordEnd(i, style, corners) == (i + style) % corners

\* OtherChord without the parentheses: (i - style - 1) % corners.
OtherChordNoParens(i, style, corners) == (i - style - 1) % corners

\* Index of the straight that straight i is intersected with:
\* (i - (style-1)) % corners.
OtherChord(i, style, corners) == (i - (style - 1)) % corners

\* Interleave without the zip: chain(corner_vertices, inner_vertices).
InterleaveChained(corner_vertices, inner_vertices) ==
    corner_vertices \o inner_vertices

\* list(chain(*zip(corner_vertices, inner_vertices))).
Interleave(corner_vertices, inner_vertices) ==
    LET m == IF Len(corner_vertices) < Len(inner_vertices)
             THEN Len(corner_vertices) ELSE Len(inner_vertices)
    IN  [k \in 1..(2 * m) |->
            IF k % 2 = 1 THEN corner_vertices[(k + 1) \div 2]
            ELSE inner_vertices[k \div 2]]

----------------------------------------------------------------------------
(* Inputs.                                                                 *)

\* No call has ended yet.
Pending == [exc |-> "pending", value |-> None]

\* Point scene: a quarter of 1.0, and the raw floats: quarters of 1.0 and
\* thirds of a unit.
Quarter == Unit \div 4
PointRaws ==
    {F(k * Quarter) : k \in (-MaxRaw)..MaxRaw}
        \cup {Norm(k, 3) : k \in (-MaxRaw)..MaxRaw}
PointRawYs == {F(-Quarter), Norm(7, 4)}
PointDecimals == {0, 1, DefaultDecimals}

\* Straight scene: the points lie on the grid of the scene's decimals.
StraightDecimals == {0, DefaultDecimals}
StraightYs == {0, 1, 3}
GridPoints(decimals) ==
    LET g == 10^(DefaultDecimals - decimals)
    IN  {Point(F(i * g), F(j * g), decimals) :
            i \in 0..MaxCoord, j \in StraightYs}

\* Star scene.
StarCorners == 3..MaxCorners
StarStyles == (-MaxStyle)..MaxStyle
StarCenters == {Point(F(0), F(0), DefaultDecimals),
                Point(F(3), F(-2), DefaultDecimals)}
StarDiameters == {F(40), F(100)}
StarAngles == {F(-10000), F(0), [n |-> 15707963, d |-> 100], TwoPi,
               [n |-> 62831854, d |-> 100], F(700000)}
StarDecimals == {3, DefaultDecimals}

----------------------------------------------------------------------------
(* Point scene: p = Point(x, y, decimals), then calls of p.moved.          *)

InitPoint ==
    /\ scene = "point"
    /\ pc = "constructed"
    /\ args \in [x : PointRaws, y : PointRawYs, decimals : PointDecimals,
                 x_distance : {F(0)}, y_distance : {F(0)}]
    /\ point = Some(Point(args.x, args.y, args.decimals))
    /\ result = Pending
    /\ straights = <<>>
    /\ star = NewStar

\* q = p.moved(x_distance, y_distance)
Moved ==
    /\ scene = "point"
    /\ \E dx \in PointRaws, dy \in PointRawYs :
          /\ args' = [args EXCEPT !.x_distance = dx, !.y_distance = dy]
          /\ result' = Return(Some(moved(point[1], dx, dy)))
    /\ pc' = "moved"
    /\ UNCHANGED <<scene, point, straights, star>>

----------------------------------------------------------------------------
(* Straight scene: s1 = Straight(A, B, decimals), s2 = Straight(C, D,      *)
(* decimals), then calls of s1.intersection(s2), str(s1), str(s2).         *)

InitStraight ==
    /\ scene = "straight"
    /\ pc = "constructed"
    /\ \E d \in StraightDecimals :
          args \in [decimals : {d}, A : GridPoints(d), B : GridPoints(d),
                    C : GridPoints(d), D : GridPoints(d)]
    /\ straights = <<Straight(args.A, args.B, args.decimals),
                     Straight(args.C, args.D, args.decimals)>>
    /\ point = None
    /\ result = Pending
    /\ star = NewStar

\* s1.intersection(s2)
Intersection ==
    /\ scene = "straight"
    /\ result' = intersection(straights[1], straights[2])
    /\ pc' = "intersection"
    /\ UNCHANGED <<scene, args, point, straights, star>>

\* str(s1) or str(s2)
Str ==
    /\ scene = "straight"
    /\ \E k \in 1..2 : result' = Return(Some(StraightStr(straights[k])))
    /\ pc' = "str"
    /\ UNCHANGED <<scene, args, point, straights, star>>

----------------------------------------------------------------------------
(* Star scene: Star(center, outer_diameter, first_corner_slope, corners,   *)
(* style, decimals), one action per statement or loop iteration of         *)
(* Star.__init__, then the accessors.                                      *)

InitStar ==
    /\ scene = "star"
    /\ pc = "call"
    /\ args \in [center : StarCenters, outer_diameter : StarDiameters,
                 first_corner_slope : StarAngles, corners : StarCorners,
                 style : StarStyles, decimals : StarDecimals]
    /\ point = None
    /\ result = Pending
    /\ straights = <<>>
    /\ star = NewStar

\* The asserts, then the assignments of the fields.
StarCheck ==
    /\ scene = "star" /\ pc = "call"
    /\ IF ~Precondition(args.corners, args.first_corner_slope)
       THEN /\ pc' = "raised"
            /\ result' = Raise("AssertionError")
            /\ UNCHANGED star
       ELSE /\ pc' = "corner_vertices"
            /\ star' = [star EXCEPT
                 !.center = Some(args.center),
                 !.outer_diameter =
                     Some(Round(args.outer_diameter, args.decimals)),
                 !.first_corner_slope =
                     Some(Round(args.first_corner_slope, args.decimals))]
            /\ UNCHANGED result
    /\ UNCHANGED <<scene, args, point, straights>>

\* One iteration of the loop that fills corner_vertices.
StarCorner ==
    /\ scene = "star" /\ pc = "corner_vertices"
    /\ LET i == Len(star.corner_vertices)
           corner_slope ==
               CornerSlope(args.corners, i, star.first_corner_slope[1])
           vertex == CornerVertex(star.center[1], star.outer_diameter[1],
                                  corner_slope)
       IN  /\ star' = [star EXCEPT
                 !.corner_vertices = Append(star.corner_vertices, vertex)]
           /\ pc' = IF i + 1 = args.corners THEN "straights" ELSE pc
    /\ UNCHANGED <<scene, args, point, result, straights>>

\* One iteration of the loop that fills straights.
StarStraight ==
    /\ scene = "star" /\ pc = "straights"
    /\ LET i == Len(straights)
           straight ==
               Straight(star.corner_vertices[i + 1],
                        star.corner_vertices[
                            ChordEnd(i, args.style, args.corners) + 1],
                        DefaultDecimals)
       IN  /\ straights' = Append(straights, straight)
           /\ pc' = IF i + 1 = args.corners THEN "inner_vertices" ELSE pc
    /\ UNCHANGED <<scene, args, point, result, star>>

\* StarInner without `if not vertex`: None is appended as a vertex.
StarInnerNoneAppended ==
    /\ scene = "star" /\ pc = "inner_vertices"
    /\ LET i == Len(star.inner_vertices)
           vertex ==
               intersection(straights[i + 1],
                            straights[
                                OtherChord(i, args.style, args.corners) + 1])
       IN  IF vertex.exc = "CoincidentStraights"
           THEN /\ pc' = "raised"
                /\ result' = Raise("StarError")
                /\ UNCHANGED star
           ELSE /\ star' = [star EXCEPT
                      !.inner_vertices =
                          Append(star.inner_vertices, vertex.value)]
                /\ pc' = IF i + 1 = args.corners THEN "vertices" ELSE pc
                /\ UNCHANGED result
    /\ UNCHANGED <<scene, args, point, straights>>

\* One iteration of the loop that fills inner_vertices.
StarInner ==
    /\ scene = "star" /\ pc = "inner_vertices"
    /\ LET i == Len(star.inner_vertices)
           vertex ==
               intersection(straights[i + 1],
                            straights[
                                OtherChord(i, args.style, args.corners) + 1])
       IN  IF vertex.exc = "CoincidentStraights"
           THEN /\ pc' = "raised"
                /\ result' = Raise("StarError")
                /\ UNCHANGED star
           ELSE IF vertex.value = None
           THEN /\ pc' = "raised"
                /\ result' = Raise("StarError")
                /\ UNCHANGED star
           ELSE /\ star' = [star EXCEPT
                      !.inner_vertices =
                          Append(star.inner_vertices, vertex.value[1])]
                /\ pc' = IF i + 1 = args.corners THEN "vertices" ELSE pc
                /\ UNCHANGED result
    /\ UNCHANGED <<scene, args, point, straights>>

\* self.vertices = ...; the constructor returns.
StarVertices ==
    /\ scene = "star" /\ pc = "vertices"
    /\ star' = [star EXCEPT
          !.vertices =
              Some(Interleave(star.corner_vertices, star.inner_vertices))]
    /\ result' = Return(Some("Star"))
    /\ pc' = "done"
    /\ UNCHANGED <<scene, args, point, straights>>

\* Star.get_x_coordinates()
GetXCoordinates ==
    /\ scene = "star" /\ pc \in {"done", "get_x", "get_y"}
    /\ result' = Return(Some([k \in DOMAIN star.vertices[1] |->
                                 star.vertices[1][k].x]))
    /\ pc' = "get_x"
    /\ UNCHANGED <<scene, args, point, straights, star>>

\* Star.get_y_coordinates()
GetYCoordinates ==
    /\ scene = "star" /\ pc \in {"done", "get_x", "get_y"}
    /\ result' = Return(Some([k \in DOMAIN star.vertices[1] |->
                                 star.vertices[1][k].y]))
    /\ pc' = "get_y"
    /\ UNCHANGED <<scene, args, point, straights, star>>

----------------------------------------------------------------------------
(* Specifications: one per scene, and the three together.                  *)

NextPoint == Moved

NextStraight == Intersection \/ Str

NextStar ==
    \/ StarCheck
    \/ StarCorner
    \/ StarStraight
    \/ StarInner
    \/ StarVertices
    \/ GetXCoordinates
    \/ GetYCoordinates

PointSpec == InitPoint /\ [][NextPoint]_vars

StraightSpec == InitStraight /\ [][NextStraight]_vars

StarSpec == InitStar /\ [][NextStar]_vars

Init == InitPoint \/ InitStraight \/ InitStar

Next == NextPoint \/ NextStraight \/ NextStar

Spec == Init /\ [][Next]_vars

----------------------------------------------------------------------------
(* Claims about Star, under StarSpec.                                      *)

\* C1: Star construction ends with the assertion failure whenever
\* corners <= 4 or first_corner_slope < 0 or first_corner_slope > 2*pi,
\* whatever the other arguments; it is raised before any corner vertex,
\* straight or inner vertex is computed and no field is assigned.  With
\* corners >= 5 and 0 <= first_corner_slope <= 2*pi (5, 0 and 2*pi
\* included) no assertion fails.
C1_PreconditionFailure ==
    (scene = "star" /\ pc # "call") =>
        IF \/ args.corners <= 4
           \/ FLt(args.first_corner_slope, F(0))
           \/ FLt(TwoPi, args.first_corner_slope)
        THEN /\ pc = "raised"
             /\ result = Raise("AssertionError")
             /\ star = NewStar
             /\ straights = <<>>
        ELSE result.exc # "AssertionError"

\* A construction with five corners or more refused for an angle above 2*pi.
C1_Witness ==
    /\ scene = "star" /\ pc = "raised"
    /\ result = Raise("AssertionError")
    /\ args.corners >= 5
    /\ FLt(TwoPi, args.first_corner_slope)

\* C2: when the construction succeeds, vertices has 2 * corners elements,
\* and for every i in 0..corners-1 vertices[2i] is corner vertex i and
\* vertices[2i+1] is inner vertex i (indices from 0).
C2_VerticesInterleaved ==
    (scene = "star" /\ result.exc = NoExc) =>
        LET v == star.vertices[1]
            n == args.corners
        IN  /\ Len(v) = 2 * n
            /\ Len(star.corner_vertices) = n
            /\ Len(star.inner_vertices) = n
            /\ \A i \in 0..(n - 1) :
                  /\ v[2 * i + 1] = star.corner_vertices[i + 1]
                  /\ v[2 * i + 1] =
                        CornerVertex(
                            args.center,
                            Round(args.outer_diameter, args.decimals),
                            CornerSlope(n, i, Round(args.first_corner_slope,
                                                    args.decimals)))
                  /\ v[2 * i + 2] = star.inner_vertices[i + 1]

\* A star of six corners constructed, its corner and inner vertices apart.
C2_Witness ==
    /\ scene = "star" /\ pc = "done"
    /\ args.corners = 6
    /\ star.vertices[1][1] # star.vertices[1][2]
    /\ star.vertices[1][2] # star.vertices[1][4]

\* Some index i whose intersection raises CoincidentStraights or returns
\* None, once the straights are all built; FirstFailing is the least one.
Failing(i) ==
    LET r == intersection(
                 straights[i + 1],
                 straights[((i - (args.style - 1)) % args.corners) + 1])
    IN  r.exc = "CoincidentStraights" \/ r.value = None

FirstFailing ==
    CHOOSE i \in 0..(args.corners - 1) :
        Failing(i) /\ \A k \in 0..(i - 1) : ~Failing(k)

\* C3: if for some index i the intersection of straight i with straight
\* (i - (style-1)) mod corners raises CoincidentStraights or returns None,
\* the construction never gets past that index, vertices is never
\* assigned, and the call ends by raising StarError with no value returned.
C3_StarErrorPropagates ==
    (/\ scene = "star"
     /\ Len(straights) = args.corners
     /\ \E i \in 0..(args.corners - 1) : Failing(i)) =>
        /\ star.vertices = None
        /\ Len(star.inner_vertices) <= FirstFailing
        /\ pc \in {"inner_vertices", "raised"}
        /\ pc = "raised" => result = Raise("StarError")
        /\ pc # "raised" => result = Pending
        /\ (pc = "inner_vertices"
              /\ Len(star.inner_vertices) = FirstFailing) =>
                 (ENABLED StarInner)

\* A construction ended by StarError because two straights that are not
\* vertical are parallel.
C3_Witness ==
    /\ scene = "star" /\ pc = "raised"
    /\ result = Raise("StarError")
    /\ LET i == Len(star.inner_vertices)
           j == (i - (args.style - 1)) % args.corners
       IN  /\ straights[i + 1].x = None
           /\ straights[j + 1].x = None
           /\ intersection(straights[i + 1], straights[j + 1]) = Return(None)

\* C10: for every corner index i and every style, straight i goes from
\* corner vertex i to corner vertex (i + style) mod corners, inner vertex i
\* is the intersection of straight i with straight
\* (i - (style-1)) mod corners, both indices lie in 0..corners-1, and that
\* second straight is the one that ends at corner vertex (i + 1) mod corners.
C10_ChordIndices ==
    scene = "star" =>
        LET n == args.corners
            cv == star.corner_vertices
            iv == star.inner_vertices
        IN  /\ \A i \in 0..(Len(straights) - 1) :
                  LET e == (i + args.style) % n
                  IN  /\ e \in 0..(n - 1)
                      /\ straights[i + 1] =
                            Straight(cv[i + 1], cv[e + 1], DefaultDecimals)
            /\ \A i \in 0..(Len(iv) - 1) :
                  LET j == (i - (args.style - 1)) % n
                  IN  /\ j \in 0..(n - 1)
                      /\ intersection(straights[i + 1], straights[j + 1])
                            = Return(Some(iv[i + 1]))
                      /\ straights[j + 1] =
                            Straight(cv[j + 1], cv[((i + 1) % n) + 1],
                                     DefaultDecimals)

\* A star constructed with a style below -corners, all inner vertices
\* computed.
C10_Witness ==
    /\ scene = "star" /\ pc = "done"
    /\ args.style < -args.corners
    /\ Len(star.inner_vertices) = args.corners

----------------------------------------------------------------------------
(* Claims about Straight, under StraightSpec.                              *)

\* Whether a straight is stored in the vertical form: the attribute x
\* alone, not None; and in the non-vertical form: a, b and x = None.
IsVertical(s) == DOMAIN s = {"x"} /\ s.x # None
IsNonVertical(s) == DOMAIN s = {"a", "b", "x"} /\ s.x = None

\* C4: for every two distinct points A and B,
\* Straight(A, B).intersection(Straight(B, A)) raises CoincidentStraights.
C4_ReorderedCoincident ==
    (/\ scene = "straight" /\ pc = "intersection"
     /\ args.A # args.B
     /\ args.C = args.B /\ args.D = args.A) =>
        result = Raise("CoincidentStraights")

\* C5: two straights of the same direction never intersect in a Point:
\* not vertical and of equal a, the call raises CoincidentStraights when
\* the b are equal and returns None when they differ; both vertical, it
\* raises CoincidentStraights when the x are equal and returns None when
\* they differ.
C5_SameDirection ==
    (scene = "straight" /\ pc = "intersection") =>
        LET s1 == straights[1]
            s2 == straights[2]
        IN  /\ (IsNonVertical(s1) /\ IsNonVertical(s2) /\ s1.a = s2.a) =>
                  IF s1.b = s2.b
                  THEN result = Raise("CoincidentStraights")
                  ELSE result = Return(None)
            /\ (IsVertical(s1) /\ IsVertical(s2)) =>
                  IF s1.x[1] = s2.x[1]
                  THEN result = Raise("CoincidentStraights")
                  ELSE result = Return(None)

\* Two distinct parallel straights that are not vertical, and None returned.
C5_Witness ==
    /\ scene = "straight" /\ pc = "intersection"
    /\ IsNonVertical(straights[1]) /\ IsNonVertical(straights[2])
    /\ straights[1].a = straights[2].a
    /\ straights[1].a # 0
    /\ straights[1].b # straights[2].b
    /\ result = Return(None)

\* C6: when exactly one of the two straights is vertical, in either call
\* order the call returns Point(x, a*x + b), x the constant of the vertical
\* straight and a, b of the other one; it never raises or returns None.
\* x = 3 and y = 2x + 1 give the Point (3, 7).
C6_OneVertical ==
    (scene = "straight" /\ pc = "intersection") =>
        LET s1 == straights[1]
            s2 == straights[2]
            P(v, o) == Point(F(v.x[1]),
                             FAdd(FMul(F(o.a), F(v.x[1])), F(o.b)),
                             DefaultDecimals)
            Example(v, o) ==
                (v.x[1] = 3 * Unit /\ o.a = 2 * Unit /\ o.b = Unit) =>
                    result.value[1] = [x |-> 3 * Unit, y |-> 7 * Unit]
        IN  /\ (IsVertical(s1) /\ IsNonVertical(s2)) =>
                  result = Return(Some(P(s1, s2))) /\ Example(s1, s2)
            /\ (IsNonVertical(s1) /\ IsVertical(s2)) =>
                  result = Return(Some(P(s2, s1))) /\ Example(s2, s1)

\* x = 3 intersected with y = 2x + 1, the vertical straight first, and the
\* Point (3, 7) returned.
C6_Witness ==
    /\ scene = "straight" /\ pc = "intersection"
    /\ straights[1] = [x |-> Some(3 * Unit)]
    /\ straights[2] = [a |-> 2 * Unit, b |-> Unit, x |-> None]
    /\ result = Return(Some([x |-> 3 * Unit, y |-> 7 * Unit]))

\* C7: for two straights that are not vertical and have a1 # a2 the call
\* returns the Point of x = (b2 - b1)/(a1 - a2) and y = a1*x + b1, each
\* rounded to the default decimals; it never raises or returns None.  The
\* quotients are written over the integers, g the common divisor of
\* b2 - b1 and a1 - a2.
C7_DifferentSlopes ==
    (/\ scene = "straight" /\ pc = "intersection"
     /\ IsNonVertical(straights[1]) /\ IsNonVertical(straights[2])
     /\ straights[1].a # straights[2].a) =>
        LET a1 == straights[1].a
            b1 == straights[1].b
            a2 == straights[2].a
            b2 == straights[2].b
            g == GCD(b2 - b1, a1 - a2)
            n == (b2 - b1) \div g
            m == (a1 - a2) \div g
        IN  result = Return(Some([x |-> RoundDiv(Unit * n, m),
                                  y |-> RoundDiv(a1 * n + b1 * m, m)]))

\* Two straights of different slopes whose intersection is no grid point
\* of either coordinate before rounding.
C7_Witness ==
    /\ scene = "straight" /\ pc = "intersection"
    /\ IsNonVertical(straights[1]) /\ IsNonVertical(straights[2])
    /\ straights[1].a # straights[2].a
    /\ result.exc = NoExc /\ result.value # None
    /\ LET a1 == straights[1].a
           b1 == straights[1].b
           d == straights[1].a - straights[2].a
           e == straights[2].b - straights[1].b
           n == e \div GCD(e, d)
           m == d \div GCD(e, d)
       IN  /\ (Unit * n) % Abs(m) # 0
           /\ (a1 * n + b1 * m) % Abs(m) # 0

\* C8: every Straight is in exactly one of two forms, fixed by its
\* construction and the same after every call: vertical, x = A.x with a
\* and b undefined, exactly when A.x = B.x; otherwise x = None with
\* a = (B.y - A.y)/(B.x - A.x) and b = A.y - a*A.x, each rounded to
\* decimals.
C8_TwoForms ==
    scene = "straight" =>
        LET Form(s, A, B) ==
                /\ IsVertical(s) \/ IsNonVertical(s)
                /\ ~(IsVertical(s) /\ IsNonVertical(s))
                /\ IsVertical(s) <=> A.x = B.x
                /\ IsVertical(s) => s.x = Some(A.x)
                /\ IsNonVertical(s) =>
                      /\ s.a = Round(FDiv(F(B.y - A.y), F(B.x - A.x)),
                                     args.decimals)
                      /\ s.b = Round(FSub(F(A.y), FMul(F(s.a), F(A.x))),
                                     args.decimals)
        IN  /\ Form(straights[1], args.A, args.B)
            /\ Form(straights[2], args.C, args.D)

\* After a call of intersection: a vertical straight and one that is not,
\* of a slope and an intercept that are not zero.
C8_Witness ==
    /\ scene = "straight" /\ pc = "intersection"
    /\ IsVertical(straights[1]) /\ args.A # args.B
    /\ IsNonVertical(straights[2])
    /\ straights[2].a # 0 /\ straights[2].b # 0

----------------------------------------------------------------------------
(* Claims about Point, under PointSpec.                                    *)

\* C9: for a Point p constructed with any decimals, p.moved(dx, dy)
\* returns the Point of (p.x + dx, p.y + dy) rounded to the decimals p was
\* constructed with, and p keeps its coordinates.
C9_MovedSameRounding ==
    (scene = "point" /\ pc = "moved") =>
        /\ point = Some(Point(args.x, args.y, args.decimals))
        /\ result =
              Return(Some(Point(FAdd(F(point[1].x), args.x_distance),
                                FAdd(F(point[1].y), args.y_distance),
                                args.decimals)))

====
